---- MODULE Spec2Model ----
(***************************************************************************)
(* A model of const-vec (src/src/lib.rs): ConstVec<T>, a fixed capacity    *)
(* array whose push and append take &self, and its consuming iterator      *)
(* IntoIter<T>.                                                            *)
(*                                                                         *)
(* Memory is modelled per base pointer as an array of slots.  A slot holds *)
(* the bits last written to it (val) and, as ownership bookkeeping, whether*)
(* it currently owns a value (st = "live"), held one that was moved out or *)
(* dropped (st = "stale", the bits are still there) or was never written   *)
(* (st = "uninit").  Pointer arithmetic is done in bytes: p.add(n) is      *)
(* n * size_of::<T>() bytes past p, so that for a zero-sized T every slot  *)
(* has the same address, as in the build.                                  *)
(***************************************************************************)
EXTENDS Integers, Sequences, FiniteSets

\* Largest capacity passed to ConstVec::new / held by a source Vec, and the
\* number of slots modelled behind every base pointer.
MaxCap == 3
\* Largest donor Vec handed to append.
MaxDonor == 2
MaxCloneCap == 1

\* size_of::<T>() of the element types explored: a zero-sized T and a 4-byte T.
SizesOfT == {0, 4}

\* usize::MAX, which Vec::<T>::capacity() reports for a zero-sized T;
\* narrowed to the integer width of the model checker.
UsizeMax == 2147483647

\* NonNull::dangling(): the base pointer of a container that owns no allocation.
Dangling == 0
\* The allocations the global allocator can hand out.
AllocIds == {1, 2}
Ptrs == {Dangling} \cup AllocIds

VARIABLES
    size_of_T,  \* mem::size_of::<T>()
    phase,      \* who owns the storage: "vec" (a ConstVec), "raw" (a raw triple),
                \* "stdvec" (a Vec), "iter" (an IntoIter), "gone" (destroyed),
                \* "aborted" (handle_alloc_error)
    cv,         \* the ConstVec: [ptr, capacity, len]
    parts,      \* the result of into_raw_parts: [ptr, len, capacity]
    vec,        \* the Vec made by From<ConstVec<T>>: [ptr, len, cap]
    it,         \* the IntoIter: [ptr, capacity, start, end], cursors in bytes from ptr
    mem,        \* mem[p][i]: the slot at p.add(i)
    heap,       \* heap[a]: [st, bytes] of allocation a
    other,      \* the donor Vec of the last append: [len, buf]
    last,       \* the last call: [op, arg, res, val, dropped, prev]
    pre,        \* what the last call found: [len, capacity, ptr, slice, donor]
    hist,       \* [kind, vals]: values pushed since new ("fresh") or clear ("cleared")
    yield,      \* [orig, front, back]: the iterated slice, what next / next_back returned
    viol,       \* memory-safety violations committed so far
    cl,         \* the container made by clone(): [ptr, capacity, len]
    pc          \* the point reached inside a call made step by step: [at, slots]

vars == <<size_of_T, phase, cv, parts, vec, it, mem, heap, other, last, pre, hist, yield, viol,
          cl, pc>>

Absent == [ptr |-> Dangling, capacity |-> 0, len |-> 0]
NoIter == [ptr |-> Dangling, capacity |-> 0, start |-> 0, end |-> 0]
NoVec == [ptr |-> Dangling, len |-> 0, cap |-> 0]
NoVal == 0
\* No clone() has been made.
NoClone == [ptr |-> Dangling, capacity |-> 0, len |-> 0, made |-> FALSE]
\* Between calls.
Idle == [at |-> "idle", slots |-> <<>>]

Slots == 0 .. (MaxCap - 1)
ValuesOf(s) == IF s = 0 THEN {1} ELSE {1, 2}
Values == ValuesOf(size_of_T)

Uninit == [val |-> NoVal, st |-> "uninit"]
Live(v) == [val |-> v, st |-> "live"]
EmptyMem == [p \in Ptrs |-> [i \in Slots |-> Uninit]]
EmptyHeap == [a \in AllocIds |-> [st |-> "unalloc", bytes |-> 0]]

SeqsUpTo(S, n) == UNION {[1 .. k -> S] : k \in 0 .. n}

(***************************************************************************)
(* Raw memory and the allocator                                            *)
(***************************************************************************)

\* pointer::add / pointer::offset: the byte offset n elements past offset off.
ptr_add(off, n) == off + n * size_of_T

\* The slot a byte offset from the base pointer addresses (T not zero-sized).
SlotAt(off) == off \div size_of_T

\* ptr::write(p.add(i), v): the slot takes the bits and owns the value; no
\* destructor runs for what the slot held.
ptr_write(m, p, i, v) == [m EXCEPT ![p][i] = Live(v)]

WriteViol(m, p, i) == IF m[p][i].st = "live" THEN {"overwrite_live"} ELSE {}

\* ptr::read(p.add(i)): a bitwise copy that moves the value out; the bits stay.
ptr_read(m, p, i) == m[p][i].val

MovedOut(m, p, i) == [m EXCEPT ![p][i].st = IF @ = "uninit" THEN "uninit" ELSE "stale"]

ReadViol(m, p, i) ==
    IF m[p][i].st = "live" THEN {}
    ELSE IF m[p][i].st = "stale" THEN {"read_moved"} ELSE {"read_uninit"}

\* ptr::drop_in_place(slice_from_raw_parts_mut(p.add(first), n)): runs the
\* destructor of the n slots from first on.
drop_in_place(m, p, first, n) ==
    [m EXCEPT ![p] = [i \in Slots |->
        IF i >= first /\ i < first + n /\ m[p][i].st = "live"
        THEN [m[p][i] EXCEPT !.st = "stale"] ELSE m[p][i]]]

DropViol(m, p, first, n) ==
    {"double_drop" : i \in {j \in Slots : j >= first /\ j < first + n /\ m[p][j].st = "stale"}}
    \cup {"drop_uninit" : i \in {j \in Slots : j >= first /\ j < first + n /\ m[p][j].st = "uninit"}}

\* The slots a drop_in_place(p.add(first), n) runs a destructor on, in order.
DroppedSlots(first, n) == [k \in 1 .. n |-> first + k - 1]

\* ptr::copy_nonoverlapping(src, p.add(at), count): the bits of src land in
\* the slots from at on, which now own the values.
copy_nonoverlapping(m, src, p, at) ==
    [m EXCEPT ![p] = [i \in Slots |->
        IF i >= at /\ i < at + Len(src) THEN Live(src[i - at + 1]) ELSE m[p][i]]]

CopyViol(m, p, at, count) ==
    {"overwrite_live" : i \in {j \in Slots : j >= at /\ j < at + count /\ m[p][j].st = "live"}}

\* std::slice::from_raw_parts(p, n): the values of the first n slots.
slice_from_raw_parts(m, p, n) == [i \in 1 .. n |-> m[p][i - 1].val]

\* Layout::array::<T>(capacity): the size in bytes.
Layout_array(c) == c * size_of_T

\* alloc::dealloc(p, layout): p must be a live allocation of that layout.
DeallocOk(h, p, bytes) == p \in AllocIds /\ h[p].st = "live" /\ h[p].bytes = bytes

dealloc(h, p, bytes) ==
    IF DeallocOk(h, p, bytes) THEN [h EXCEPT ![p].st = "freed"] ELSE h

DeallocViol(h, p, bytes) == IF DeallocOk(h, p, bytes) THEN {} ELSE {"bad_dealloc"}

(***************************************************************************)
(* ConstVec<T>: queries                                                    *)
(***************************************************************************)

capacity(c) == c.capacity

len(c) == c.len

is_empty(c) == len(c) = 0

as_ptr(c) == c.ptr

as_slice(c) == slice_from_raw_parts(mem, as_ptr(c), len(c))

\* Vec::<T>::capacity(): the stored capacity, usize::MAX for a zero-sized T.
Vec_capacity(v) == IF size_of_T = 0 THEN UsizeMax ELSE v.cap

\* What a call finds, kept for the statements about its effect.
Snapshot(donor) ==
    [len |-> len(cv), capacity |-> capacity(cv), ptr |-> as_ptr(cv),
     slice |-> as_slice(cv), donor |-> donor]

NoSnapshot == [len |-> 0, capacity |-> 0, ptr |-> Dangling, slice |-> <<>>, donor |-> <<>>]

\* The record of a call: its name, arguments, outcome, returned value, the slots
\* whose destructor it ran, and the name of the call before it.
Call(op, arg, res, val, dropped) ==
    [op |-> op, arg |-> arg, res |-> res, val |-> val, dropped |-> dropped,
     prev |-> last.op]

FirstCall(op, res) ==
    [op |-> op, arg |-> <<>>, res |-> res, val |-> NoVal, dropped |-> <<>>,
     prev |-> "none"]

NoYield == [orig |-> <<>>, front |-> <<>>, back |-> <<>>]
NoDonor == [len |-> 0, buf |-> <<>>]
Unrelated == [kind |-> "other", vals |-> <<>>]

(***************************************************************************)
(* Construction                                                            *)
(***************************************************************************)

\* ConstVec::new(c) for an element size s: no allocation for c = 0, else
\* alloc::alloc(Layout::array::<T>(c)).  For a zero-sized T and c > 0 the
\* layout has size 0, which alloc's contract forbids: the call is recorded
\* in viol and yields a pointer (or null, see InitAbort).
InitNew(s, c) ==
    /\ size_of_T = s
    /\ phase = "vec"
    /\ cv = [ptr |-> IF c = 0 THEN Dangling ELSE 1, capacity |-> c, len |-> 0]
    /\ mem = EmptyMem
    /\ heap = IF c = 0 THEN EmptyHeap
              ELSE [EmptyHeap EXCEPT ![1] = [st |-> "live", bytes |-> c * s]]
    /\ viol = IF c # 0 /\ s = 0 THEN {"zero_size_alloc"} ELSE {}
    /\ last = [FirstCall("new", "ok") EXCEPT !.arg = <<c>>]
    /\ pre = NoSnapshot
    /\ hist = [kind |-> "fresh", vals |-> <<>>]

\* ConstVec::new(c) when alloc returns null: handle_alloc_error ends the process.
InitAbort(s, c) ==
    /\ c # 0
    /\ size_of_T = s
    /\ phase = "aborted"
    /\ cv = Absent
    /\ mem = EmptyMem
    /\ heap = EmptyHeap
    /\ viol = IF s = 0 THEN {"zero_size_alloc"} ELSE {}
    /\ last = FirstCall("new", "abort")
    /\ pre = NoSnapshot
    /\ hist = Unrelated

\* ConstVec::from(v) of a Vec holding es with stored capacity c.  A Vec of a
\* zero-sized T, or of capacity 0, owns no allocation and points at dangling.
InitFrom(s, es, c) ==
    LET p == IF s = 0 \/ c = 0 THEN Dangling ELSE 1
        cap == IF s = 0 THEN UsizeMax ELSE c
    IN  /\ size_of_T = s
        /\ phase = "vec"
        /\ cv = [ptr |-> p, capacity |-> cap, len |-> Len(es)]
        /\ mem = [EmptyMem EXCEPT ![p] =
                    [i \in Slots |-> IF i < Len(es) THEN Live(es[i + 1]) ELSE Uninit]]
        /\ heap = IF p = Dangling THEN EmptyHeap
                  ELSE [EmptyHeap EXCEPT ![1] = [st |-> "live", bytes |-> c * s]]
        /\ viol = {}
        /\ last = FirstCall("from", "ok")
        /\ pre = [len |-> Len(es), capacity |-> cap, ptr |-> p, slice |-> es, donor |-> <<>>]
        /\ hist = Unrelated

Init ==
    /\ parts = Absent
    /\ vec = NoVec
    /\ it = NoIter
    /\ other = NoDonor
    /\ yield = NoYield
    /\ cl = NoClone
    /\ pc = Idle
    /\ \E s \in SizesOfT :
        \/ \E c \in 0 .. MaxCap : InitNew(s, c)
        \/ \E c \in 0 .. MaxCap : InitAbort(s, c)
        \/ \E es \in SeqsUpTo(ValuesOf(s), MaxCap) : \E c \in Len(es) .. MaxCap :
              InitFrom(s, es, c)

(***************************************************************************)
(* ConstVec<T>: push, pop, append, clear                                   *)
(***************************************************************************)

\* push with the length left as it was after the write.
push_without_len_update(value) ==
    /\ phase = "vec"
    /\ pre' = Snapshot(<<>>)
    /\ IF len(cv) < capacity(cv)
       THEN /\ len(cv) < MaxCap
            /\ mem' = ptr_write(mem, cv.ptr, len(cv), value)
            /\ viol' = viol \cup WriteViol(mem, cv.ptr, len(cv))
            /\ cv' = cv
            /\ last' = Call("push", <<value>>, "ok", NoVal, <<>>)
            /\ hist' = IF hist.kind = "other" THEN hist
                       ELSE [hist EXCEPT !.vals = Append(@, value)]
       ELSE /\ last' = Call("push", <<value>>, "panic", NoVal, <<>>)
            /\ UNCHANGED <<cv, mem, viol, hist>>
    /\ UNCHANGED <<size_of_T, cl, pc, phase, parts, vec, it, heap, other, yield>>

\* push with the capacity check off by one (<= for <).
push_off_by_one(value) ==
    /\ phase = "vec"
    /\ pre' = Snapshot(<<>>)
    /\ IF len(cv) <= capacity(cv)
       THEN /\ len(cv) < MaxCap
            /\ mem' = ptr_write(mem, cv.ptr, len(cv), value)
            /\ viol' = viol \cup WriteViol(mem, cv.ptr, len(cv))
            /\ cv' = [cv EXCEPT !.len = len(cv) + 1]
            /\ last' = Call("push", <<value>>, "ok", NoVal, <<>>)
            /\ hist' = IF hist.kind = "other" THEN hist
                       ELSE [hist EXCEPT !.vals = Append(@, value)]
       ELSE /\ last' = Call("push", <<value>>, "panic", NoVal, <<>>)
            /\ UNCHANGED <<cv, mem, viol, hist>>
    /\ UNCHANGED <<size_of_T, cl, pc, phase, parts, vec, it, heap, other, yield>>

\* push(&self, value).  The slots modelled end at MaxCap: a container whose
\* capacity is usize::MAX is pushed to only that far.
push(value) ==
    /\ phase = "vec"
    /\ pre' = Snapshot(<<>>)
    /\ IF len(cv) < capacity(cv)
       THEN /\ len(cv) < MaxCap
            /\ mem' = ptr_write(mem, cv.ptr, len(cv), value)
            /\ viol' = viol \cup WriteViol(mem, cv.ptr, len(cv))
            /\ cv' = [cv EXCEPT !.len = len(cv) + 1]
            /\ last' = Call("push", <<value>>, "ok", NoVal, <<>>)
            /\ hist' = IF hist.kind = "other" THEN hist
                       ELSE [hist EXCEPT !.vals = Append(@, value)]
       ELSE /\ last' = Call("push", <<value>>, "panic", NoVal, <<>>)
            /\ UNCHANGED <<cv, mem, viol, hist>>
    /\ UNCHANGED <<size_of_T, cl, pc, phase, parts, vec, it, heap, other, yield>>

\* pop reading the slot at the base pointer instead of the last live one.
pop_reading_front ==
    /\ phase = "vec"
    /\ pre' = Snapshot(<<>>)
    /\ hist' = Unrelated
    /\ IF cv.len = 0
       THEN /\ last' = Call("pop", <<>>, "none", NoVal, <<>>)
            /\ UNCHANGED <<cv, mem, viol>>
       ELSE LET n == cv.len - 1
            IN  /\ cv' = [cv EXCEPT !.len = n]
                /\ last' = Call("pop", <<>>, "some", ptr_read(mem, as_ptr(cv), 0), <<>>)
                /\ mem' = MovedOut(mem, as_ptr(cv), 0)
                /\ viol' = viol \cup ReadViol(mem, as_ptr(cv), 0)
    /\ UNCHANGED <<size_of_T, cl, pc, phase, parts, vec, it, heap, other, yield>>

\* pop panicking on an empty container instead of returning None.
pop_panicking_on_empty ==
    /\ phase = "vec"
    /\ pre' = Snapshot(<<>>)
    /\ hist' = Unrelated
    /\ IF cv.len = 0
       THEN /\ last' = Call("pop", <<>>, "panic", NoVal, <<>>)
            /\ UNCHANGED <<cv, mem, viol>>
       ELSE LET n == cv.len - 1
            IN  /\ cv' = [cv EXCEPT !.len = n]
                /\ last' = Call("pop", <<>>, "some", ptr_read(mem, as_ptr(cv), n), <<>>)
                /\ mem' = MovedOut(mem, as_ptr(cv), n)
                /\ viol' = viol \cup ReadViol(mem, as_ptr(cv), n)
    /\ UNCHANGED <<size_of_T, cl, pc, phase, parts, vec, it, heap, other, yield>>

\* pop giving the freed room back: the capacity shrinks to the new length.
pop_shrinking ==
    /\ phase = "vec"
    /\ pre' = Snapshot(<<>>)
    /\ hist' = Unrelated
    /\ IF cv.len = 0
       THEN /\ last' = Call("pop", <<>>, "none", NoVal, <<>>)
            /\ UNCHANGED <<cv, mem, viol>>
       ELSE LET n == cv.len - 1
            IN  /\ cv' = [cv EXCEPT !.len = n, !.capacity = n]
                /\ last' = Call("pop", <<>>, "some", ptr_read(mem, as_ptr(cv), n), <<>>)
                /\ mem' = MovedOut(mem, as_ptr(cv), n)
                /\ viol' = viol \cup ReadViol(mem, as_ptr(cv), n)
    /\ UNCHANGED <<size_of_T, cl, pc, phase, parts, vec, it, heap, other, yield>>

\* pop(&mut self)
pop ==
    /\ phase = "vec"
    /\ pre' = Snapshot(<<>>)
    /\ hist' = Unrelated
    /\ IF cv.len = 0
       THEN /\ last' = Call("pop", <<>>, "none", NoVal, <<>>)
            /\ UNCHANGED <<cv, mem, viol>>
       ELSE LET n == cv.len - 1
            IN  /\ cv' = [cv EXCEPT !.len = n]
                /\ last' = Call("pop", <<>>, "some", ptr_read(mem, as_ptr(cv), n), <<>>)
                /\ mem' = MovedOut(mem, as_ptr(cv), n)
                /\ viol' = viol \cup ReadViol(mem, as_ptr(cv), n)
    /\ UNCHANGED <<size_of_T, cl, pc, phase, parts, vec, it, heap, other, yield>>

\* append_elements copying to the base pointer instead of behind the live elements.
append_elements_at_base(src) ==
    /\ mem' = copy_nonoverlapping(mem, src, cv.ptr, 0)
    /\ viol' = viol \cup CopyViol(mem, cv.ptr, 0, Len(src))
    /\ cv' = [cv EXCEPT !.len = len(cv) + Len(src)]

\* append_elements(&self, other): copies the donor's elements behind the live
\* ones and adds their count to len.
append_elements(src) ==
    /\ mem' = copy_nonoverlapping(mem, src, cv.ptr, len(cv))
    /\ viol' = viol \cup CopyViol(mem, cv.ptr, len(cv), Len(src))
    /\ cv' = [cv EXCEPT !.len = len(cv) + Len(src)]

\* append with the check made on the donor's length alone.
append_ignoring_len(src) ==
    /\ phase = "vec"
    /\ pre' = Snapshot(src)
    /\ hist' = Unrelated
    /\ IF Len(src) <= capacity(cv)
       THEN /\ len(cv) + Len(src) <= MaxCap
            /\ append_elements(src)
            /\ other' = [len |-> 0,
                         buf |-> [i \in 1 .. Len(src) |-> [val |-> src[i], st |-> "stale"]]]
            /\ last' = Call("append", src, "ok", NoVal, <<>>)
       ELSE /\ other' = [len |-> Len(src), buf |-> [i \in 1 .. Len(src) |-> Live(src[i])]]
            /\ last' = Call("append", src, "panic", NoVal, <<>>)
            /\ UNCHANGED <<cv, mem, viol>>
    /\ UNCHANGED <<size_of_T, cl, pc, phase, parts, vec, it, heap, yield>>

\* append emptying the donor before the capacity check.
append_draining_first(src) ==
    /\ phase = "vec"
    /\ pre' = Snapshot(src)
    /\ hist' = Unrelated
    /\ other' = [len |-> 0,
                 buf |-> [i \in 1 .. Len(src) |-> [val |-> src[i], st |-> "stale"]]]
    /\ IF len(cv) + Len(src) <= capacity(cv)
       THEN /\ len(cv) + Len(src) <= MaxCap
            /\ append_elements(src)
            /\ last' = Call("append", src, "ok", NoVal, <<>>)
       ELSE /\ last' = Call("append", src, "panic", NoVal, <<>>)
            /\ UNCHANGED <<cv, mem, viol>>
    /\ UNCHANGED <<size_of_T, cl, pc, phase, parts, vec, it, heap, yield>>

\* append(&self, other: &mut Vec<T>), the donor holding src.
append(src) ==
    /\ phase = "vec"
    /\ pre' = Snapshot(src)
    /\ hist' = Unrelated
    /\ IF len(cv) + Len(src) <= capacity(cv)
       THEN /\ len(cv) + Len(src) <= MaxCap
            /\ append_elements(src)
            /\ other' = [len |-> 0,
                         buf |-> [i \in 1 .. Len(src) |-> [val |-> src[i], st |-> "stale"]]]
            /\ last' = Call("append", src, "ok", NoVal, <<>>)
       ELSE /\ other' = [len |-> Len(src), buf |-> [i \in 1 .. Len(src) |-> Live(src[i])]]
            /\ last' = Call("append", src, "panic", NoVal, <<>>)
            /\ UNCHANGED <<cv, mem, viol>>
    /\ UNCHANGED <<size_of_T, cl, pc, phase, parts, vec, it, heap, yield>>

\* clear dropping the elements without resetting len.
clear_keeping_len ==
    /\ phase = "vec"
    /\ pre' = Snapshot(<<>>)
    /\ hist' = [kind |-> "cleared", vals |-> <<>>]
    /\ cv' = cv
    /\ mem' = drop_in_place(mem, as_ptr(cv), 0, len(cv))
    /\ viol' = viol \cup DropViol(mem, as_ptr(cv), 0, len(cv))
    /\ last' = Call("clear", <<>>, "ok", NoVal, DroppedSlots(0, len(cv)))
    /\ UNCHANGED <<size_of_T, cl, pc, phase, parts, vec, it, heap, other, yield>>

\* clear(&mut self): len is set to 0, then the elements of the former slice
\* are dropped in place.
clear ==
    /\ phase = "vec"
    /\ pre' = Snapshot(<<>>)
    /\ hist' = [kind |-> "cleared", vals |-> <<>>]
    /\ cv' = [cv EXCEPT !.len = 0]
    /\ mem' = drop_in_place(mem, as_ptr(cv), 0, len(cv))
    /\ viol' = viol \cup DropViol(mem, as_ptr(cv), 0, len(cv))
    /\ last' = Call("clear", <<>>, "ok", NoVal, DroppedSlots(0, len(cv)))
    /\ UNCHANGED <<size_of_T, cl, pc, phase, parts, vec, it, heap, other, yield>>

(***************************************************************************)
(* push, pop and clear taken one statement at a time                       *)
(***************************************************************************)

\* Elements given up without their destructor having run: the slots keep
\* the bits, nothing owns the values any more.
Leaked(m, p, slots) ==
    [m EXCEPT ![p] = [i \in Slots |->
        IF (\E k \in 1 .. Len(slots) : slots[k] = i) /\ m[p][i].st = "live"
        THEN [m[p][i] EXCEPT !.st = "leaked"] ELSE m[p][i]]]

\* The first statement of push adding one to len, the write left for later.
push_incrementing_first(value) ==
    /\ pc = Idle /\ phase = "vec"
    /\ len(cv) < capacity(cv)
    /\ len(cv) < MaxCap
    /\ pre' = Snapshot(<<>>)
    /\ cv' = [cv EXCEPT !.len = len(cv) + 1]
    /\ pc' = [at |-> "push", slots |-> <<len(cv)>>]
    /\ UNCHANGED <<size_of_T, cl, phase, parts, vec, it, mem, heap, other, last, hist, yield,
                   viol>>

\* push, capacity check passed: ptr::write(self.ptr.as_ptr().add(len), value).
push_write(value) ==
    /\ pc = Idle /\ phase = "vec"
    /\ len(cv) < capacity(cv)
    /\ len(cv) < MaxCap
    /\ pre' = Snapshot(<<>>)
    /\ mem' = ptr_write(mem, cv.ptr, len(cv), value)
    /\ viol' = viol \cup WriteViol(mem, cv.ptr, len(cv))
    /\ pc' = [at |-> "push", slots |-> <<len(cv)>>]
    /\ UNCHANGED <<size_of_T, cl, phase, cv, parts, vec, it, heap, other, last, hist, yield>>

\* push: self.len.set(len + 1), len being the length read before the write.
push_set_len ==
    /\ pc.at = "push"
    /\ LET n == pc.slots[1]
       IN  /\ cv' = [cv EXCEPT !.len = n + 1]
           /\ last' = Call("push", <<mem[cv.ptr][n].val>>, "ok", NoVal, <<>>)
           /\ hist' = IF hist.kind = "other" THEN hist
                      ELSE [hist EXCEPT !.vals = Append(@, mem[cv.ptr][n].val)]
    /\ pc' = Idle
    /\ UNCHANGED <<size_of_T, cl, phase, parts, vec, it, mem, heap, other, pre, yield, viol>>

\* push on a full container: the panic, nothing else.
push_full(value) ==
    /\ pc = Idle
    /\ phase = "vec"
    /\ ~(len(cv) < capacity(cv))
    /\ push(value)

\* pop, container not empty: self.len.set(self.len.get() - 1).
pop_set_len ==
    /\ pc = Idle /\ phase = "vec"
    /\ cv.len # 0
    /\ pre' = Snapshot(<<>>)
    /\ cv' = [cv EXCEPT !.len = cv.len - 1]
    /\ pc' = [at |-> "pop", slots |-> <<cv.len - 1>>]
    /\ UNCHANGED <<size_of_T, cl, phase, parts, vec, it, mem, heap, other, last, hist, yield,
                   viol>>

\* pop: Some(ptr::read(self.as_ptr().add(self.len()))), len read anew.
pop_read ==
    /\ pc.at = "pop"
    /\ last' = Call("pop", <<>>, "some", ptr_read(mem, as_ptr(cv), len(cv)), <<>>)
    /\ mem' = MovedOut(mem, as_ptr(cv), len(cv))
    /\ viol' = viol \cup ReadViol(mem, as_ptr(cv), len(cv))
    /\ hist' = Unrelated
    /\ pc' = Idle
    /\ UNCHANGED <<size_of_T, cl, phase, cv, parts, vec, it, heap, other, pre, yield>>

\* pop on an empty container: None.
pop_empty ==
    /\ pc = Idle
    /\ phase = "vec"
    /\ cv.len = 0
    /\ pop

\* The first statement of clear taking the slice and leaving len as it is.
clear_not_resetting_len ==
    /\ pc = Idle /\ phase = "vec"
    /\ pre' = Snapshot(<<>>)
    /\ cv' = cv
    /\ pc' = [at |-> "clear", slots |-> DroppedSlots(0, len(cv))]
    /\ UNCHANGED <<size_of_T, cl, phase, parts, vec, it, mem, heap, other, last, hist, yield,
                   viol>>

\* clear: elems = self.as_mut_slice(), then self.len.set(0).
clear_set_len ==
    /\ pc = Idle /\ phase = "vec"
    /\ pre' = Snapshot(<<>>)
    /\ cv' = [cv EXCEPT !.len = 0]
    /\ pc' = [at |-> "clear", slots |-> DroppedSlots(0, len(cv))]
    /\ UNCHANGED <<size_of_T, cl, phase, parts, vec, it, mem, heap, other, last, hist, yield,
                   viol>>

\* clear, inside ptr::drop_in_place(elems): the destructor of the next
\* element of elems runs and returns.
clear_drop ==
    /\ pc.at = "clear" /\ pc.slots # <<>>
    /\ mem' = drop_in_place(mem, as_ptr(cv), Head(pc.slots), 1)
    /\ viol' = viol \cup DropViol(mem, as_ptr(cv), Head(pc.slots), 1)
    /\ pc' = [pc EXCEPT !.slots = Tail(@)]
    /\ UNCHANGED <<size_of_T, cl, phase, cv, parts, vec, it, heap, other, last, pre, hist,
                   yield>>

\* clear, inside ptr::drop_in_place(elems): the destructor of the next
\* element panics.  The element counts as dropped; while unwinding, the drop
\* glue of the slice either goes on to drop the elements behind it or they
\* are leaked.  clear is left by the panic.
clear_drop_panic(unwinding) ==
    /\ pc.at = "clear" /\ pc.slots # <<>>
    /\ LET k == Head(pc.slots)
           rest == Tail(pc.slots)
           first == drop_in_place(mem, as_ptr(cv), k, 1)
       IN  IF unwinding = "drops_rest"
           THEN /\ mem' = drop_in_place(first, as_ptr(cv), k + 1, Len(rest))
                /\ viol' = viol \cup DropViol(mem, as_ptr(cv), k, 1 + Len(rest))
                /\ last' = Call("clear", <<>>, "panic", NoVal, DroppedSlots(0, pre.len))
           ELSE /\ mem' = Leaked(first, as_ptr(cv), rest)
                /\ viol' = viol \cup DropViol(mem, as_ptr(cv), k, 1)
                /\ last' = Call("clear", <<>>, "panic", NoVal, DroppedSlots(0, k + 1))
    /\ hist' = [kind |-> "cleared", vals |-> <<>>]
    /\ pc' = Idle
    /\ UNCHANGED <<size_of_T, cl, phase, cv, parts, vec, it, heap, other, pre, yield>>

\* clear: every destructor has returned, and so does clear.
clear_return ==
    /\ pc.at = "clear" /\ pc.slots = <<>>
    /\ last' = Call("clear", <<>>, "ok", NoVal, DroppedSlots(0, pre.len))
    /\ hist' = [kind |-> "cleared", vals |-> <<>>]
    /\ pc' = Idle
    /\ UNCHANGED <<size_of_T, cl, phase, cv, parts, vec, it, mem, heap, other, pre, yield,
                   viol>>

(***************************************************************************)
(* Clone, and the calls made on the clone                                  *)
(***************************************************************************)

\* The pointer alloc::alloc returns: an allocation not handed out before.
FreshAlloc == CHOOSE a \in AllocIds : heap[a].st = "unalloc"

\* clone handing out the buffer of the original instead of a new one.
clone_sharing_buffer ==
    /\ phase = "vec"
    /\ ~cl.made
    /\ capacity(cv) <= MaxCloneCap
    /\ pre' = Snapshot(<<>>)
    /\ cl' = [ptr |-> cv.ptr, capacity |-> capacity(cv), len |-> len(cv), made |-> TRUE]
    /\ last' = Call("clone", <<>>, "ok", NoVal, <<>>)
    /\ UNCHANGED <<size_of_T, pc, phase, cv, parts, vec, it, mem, heap, other, hist, yield,
                   viol>>

\* Clone::clone(&self): Self::new(self.capacity), then a push of item.clone()
\* for every item of the slice, in order.  One clone is made per run, of a
\* container of capacity MaxCloneCap at most.
clone ==
    /\ phase = "vec"
    /\ ~cl.made
    /\ capacity(cv) <= MaxCloneCap
    /\ pre' = Snapshot(<<>>)
    /\ LET p == IF capacity(cv) = 0 THEN Dangling ELSE FreshAlloc
       IN  /\ cl' = [ptr |-> p, capacity |-> capacity(cv), len |-> len(cv), made |-> TRUE]
           /\ heap' = IF p = Dangling THEN heap
                      ELSE [heap EXCEPT ![p] = [st |-> "live",
                                                bytes |-> Layout_array(capacity(cv))]]
           /\ mem' = IF p = Dangling THEN mem
                     ELSE [mem EXCEPT ![p] = [i \in Slots |->
                              IF i < len(cv) THEN Live(mem[cv.ptr][i].val) ELSE Uninit]]
           /\ viol' = viol \cup (IF p # Dangling /\ size_of_T = 0
                                 THEN {"zero_size_alloc"} ELSE {})
    /\ last' = Call("clone", <<>>, "ok", NoVal, <<>>)
    /\ UNCHANGED <<size_of_T, pc, phase, cv, parts, vec, it, other, hist, yield>>

\* Clone::clone when the alloc of Self::new returns null.
clone_abort ==
    /\ phase = "vec"
    /\ ~cl.made
    /\ capacity(cv) # 0
    /\ phase' = "aborted"
    /\ viol' = viol \cup (IF size_of_T = 0 THEN {"zero_size_alloc"} ELSE {})
    /\ last' = Call("clone", <<>>, "abort", NoVal, <<>>)
    /\ UNCHANGED <<size_of_T, cl, pc, cv, parts, vec, it, mem, heap, other, pre, hist, yield>>

\* What a call on the clone finds.
CloneSnapshot(donor) ==
    [len |-> len(cl), capacity |-> capacity(cl), ptr |-> as_ptr(cl),
     slice |-> as_slice(cl), donor |-> donor]

\* push(&self, value) on the clone.
clone_push(value) ==
    /\ cl.made /\ phase # "aborted"
    /\ pre' = CloneSnapshot(<<>>)
    /\ IF len(cl) < capacity(cl)
       THEN /\ len(cl) < MaxCap
            /\ mem' = ptr_write(mem, cl.ptr, len(cl), value)
            /\ viol' = viol \cup WriteViol(mem, cl.ptr, len(cl))
            /\ cl' = [cl EXCEPT !.len = len(cl) + 1]
            /\ last' = Call("clone_push", <<value>>, "ok", NoVal, <<>>)
       ELSE /\ last' = Call("clone_push", <<value>>, "panic", NoVal, <<>>)
            /\ UNCHANGED <<cl, mem, viol>>
    /\ UNCHANGED <<size_of_T, pc, phase, cv, parts, vec, it, heap, other, hist, yield>>

\* pop(&mut self) on the clone.
clone_pop ==
    /\ cl.made /\ phase # "aborted"
    /\ pre' = CloneSnapshot(<<>>)
    /\ IF cl.len = 0
       THEN /\ last' = Call("clone_pop", <<>>, "none", NoVal, <<>>)
            /\ UNCHANGED <<cl, mem, viol>>
       ELSE LET n == cl.len - 1
            IN  /\ cl' = [cl EXCEPT !.len = n]
                /\ last' = Call("clone_pop", <<>>, "some", ptr_read(mem, as_ptr(cl), n), <<>>)
                /\ mem' = MovedOut(mem, as_ptr(cl), n)
                /\ viol' = viol \cup ReadViol(mem, as_ptr(cl), n)
    /\ UNCHANGED <<size_of_T, pc, phase, cv, parts, vec, it, heap, other, hist, yield>>

\* append(&self, other) on the clone, the donor holding src.
clone_append(src) ==
    /\ cl.made /\ phase # "aborted"
    /\ pre' = CloneSnapshot(src)
    /\ IF len(cl) + Len(src) <= capacity(cl)
       THEN /\ len(cl) + Len(src) <= MaxCap
            /\ mem' = copy_nonoverlapping(mem, src, cl.ptr, len(cl))
            /\ viol' = viol \cup CopyViol(mem, cl.ptr, len(cl), Len(src))
            /\ cl' = [cl EXCEPT !.len = len(cl) + Len(src)]
            /\ other' = [len |-> 0,
                         buf |-> [i \in 1 .. Len(src) |-> [val |-> src[i], st |-> "stale"]]]
            /\ last' = Call("clone_append", src, "ok", NoVal, <<>>)
       ELSE /\ other' = [len |-> Len(src), buf |-> [i \in 1 .. Len(src) |-> Live(src[i])]]
            /\ last' = Call("clone_append", src, "panic", NoVal, <<>>)
            /\ UNCHANGED <<cl, mem, viol>>
    /\ UNCHANGED <<size_of_T, pc, phase, cv, parts, vec, it, heap, hist, yield>>

\* clear(&mut self) on the clone.
clone_clear ==
    /\ cl.made /\ phase # "aborted"
    /\ pre' = CloneSnapshot(<<>>)
    /\ cl' = [cl EXCEPT !.len = 0]
    /\ mem' = drop_in_place(mem, as_ptr(cl), 0, len(cl))
    /\ viol' = viol \cup DropViol(mem, as_ptr(cl), 0, len(cl))
    /\ last' = Call("clone_clear", <<>>, "ok", NoVal, DroppedSlots(0, len(cl)))
    /\ UNCHANGED <<size_of_T, pc, phase, cv, parts, vec, it, heap, other, hist, yield>>

(***************************************************************************)
(* Equality                                                                *)
(***************************************************************************)

\* == of two slices ([T] : PartialEq<[U]>): equal lengths and equal elements
\* position by position.
slice_eq(a, b) == Len(a) = Len(b) /\ \A i \in 1 .. Len(a) : a[i] = b[i]

\* An equality that compares the whole buffer, up to the capacity.
eq_whole_buffer(c, o) ==
    slice_eq(slice_from_raw_parts(mem, as_ptr(c),
                                  IF capacity(c) <= MaxCap THEN capacity(c) ELSE MaxCap), o)

\* PartialEq::eq(&self, other) of every impl: *self.as_slice() == *other.
PartialEq_eq(c, o) == slice_eq(as_slice(c), o)

\* The bool a comparison returns, as recorded in a Call.
Bool(b) == IF b THEN "true" ELSE "false"

\* self == other for other a [U], &[U], [U; N] or &[U; N] holding o.
eq(o) ==
    /\ phase = "vec"
    /\ last' = Call("eq", o, Bool(PartialEq_eq(cv, o)), NoVal, <<>>)
    /\ UNCHANGED <<size_of_T, cl, pc, phase, cv, parts, vec, it, mem, heap, other, pre, hist,
                   yield, viol>>

\* self == other for other a ConstVec of capacity c holding o: the impl reads
\* other.as_slice() and nothing else of it.
eq_ConstVec(o, c) ==
    /\ phase = "vec"
    /\ Len(o) <= c
    /\ last' = Call("eq_ConstVec", o, Bool(PartialEq_eq(cv, o)), c, <<>>)
    /\ UNCHANGED <<size_of_T, cl, pc, phase, cv, parts, vec, it, mem, heap, other, pre, hist,
                   yield, viol>>

(***************************************************************************)
(* Raw parts and Vec conversions                                           *)
(***************************************************************************)

\* into_raw_parts(self): the triple, the container wrapped in ManuallyDrop so
\* that its destructor does not run.
into_raw_parts ==
    /\ phase = "vec"
    /\ pre' = Snapshot(<<>>)
    /\ parts' = [ptr |-> as_ptr(cv), len |-> len(cv), capacity |-> capacity(cv)]
    /\ phase' = "raw"
    /\ cv' = Absent
    /\ hist' = Unrelated
    /\ last' = Call("into_raw_parts", <<>>, "ok", NoVal, <<>>)
    /\ UNCHANGED <<size_of_T, cl, pc, vec, it, mem, heap, other, yield, viol>>

\* ConstVec::from_raw_parts(ptr, len, capacity) on the triple into_raw_parts gave.
from_raw_parts ==
    /\ phase = "raw"
    /\ cv' = [ptr |-> parts.ptr, capacity |-> parts.capacity, len |-> parts.len]
    /\ phase' = "vec"
    /\ parts' = Absent
    /\ last' = Call("from_raw_parts", <<>>, "ok", NoVal, <<>>)
    /\ UNCHANGED <<size_of_T, cl, pc, vec, it, mem, heap, other, pre, hist, yield, viol>>

\* Vec::from(ConstVec): Vec::from_raw_parts on the triple of into_raw_parts.
into_vec ==
    /\ phase = "vec"
    /\ pre' = Snapshot(<<>>)
    /\ vec' = [ptr |-> as_ptr(cv), len |-> len(cv), cap |-> capacity(cv)]
    /\ phase' = "stdvec"
    /\ cv' = Absent
    /\ hist' = Unrelated
    /\ last' = Call("into_vec", <<>>, "ok", NoVal, <<>>)
    /\ UNCHANGED <<size_of_T, cl, pc, parts, it, mem, heap, other, yield, viol>>

\* ConstVec::from(Vec) taking the Vec's length for the capacity.
from_vec_len_as_capacity ==
    /\ phase = "stdvec"
    /\ cv' = [ptr |-> vec.ptr, capacity |-> vec.len, len |-> vec.len]
    /\ phase' = "vec"
    /\ vec' = NoVec
    /\ last' = Call("from", <<>>, "ok", NoVal, <<>>)
    /\ UNCHANGED <<size_of_T, cl, pc, parts, it, mem, heap, other, pre, hist, yield, viol>>

\* ConstVec::from(Vec): adopts the Vec's as_mut_ptr(), len() and capacity(),
\* the Vec wrapped in ManuallyDrop.
from_vec ==
    /\ phase = "stdvec"
    /\ cv' = [ptr |-> vec.ptr, capacity |-> Vec_capacity(vec), len |-> vec.len]
    /\ phase' = "vec"
    /\ vec' = NoVec
    /\ last' = Call("from", <<>>, "ok", NoVal, <<>>)
    /\ UNCHANGED <<size_of_T, cl, pc, parts, it, mem, heap, other, pre, hist, yield, viol>>

(***************************************************************************)
(* IntoIter<T>                                                             *)
(***************************************************************************)

\* into_iter without the mem::forget: the destructor of the container runs
\* when into_iter returns.
into_iter_dropping_source ==
    /\ phase = "vec"
    /\ pre' = Snapshot(<<>>)
    /\ it' = [ptr |-> cv.ptr, capacity |-> cv.capacity,
              start |-> 0, end |-> ptr_add(0, len(cv))]
    /\ yield' = [orig |-> as_slice(cv), front |-> <<>>, back |-> <<>>]
    /\ phase' = "iter"
    /\ cv' = Absent
    /\ hist' = Unrelated
    /\ IF capacity(cv) # 0
       THEN /\ mem' = drop_in_place(mem, as_ptr(cv), 0, len(cv))
            /\ heap' = dealloc(heap, cv.ptr, Layout_array(capacity(cv)))
            /\ viol' = viol \cup DropViol(mem, as_ptr(cv), 0, len(cv))
                            \cup DeallocViol(heap, cv.ptr, Layout_array(capacity(cv)))
            /\ last' = Call("into_iter", <<>>, "ok", NoVal, DroppedSlots(0, len(cv)))
       ELSE /\ last' = Call("into_iter", <<>>, "ok", NoVal, <<>>)
            /\ UNCHANGED <<mem, heap, viol>>
    /\ UNCHANGED <<size_of_T, cl, pc, parts, vec, other>>

\* into_iter(self): start at the base pointer, end len elements past it; the
\* container is forgotten.
into_iter ==
    /\ phase = "vec"
    /\ pre' = Snapshot(<<>>)
    /\ it' = [ptr |-> cv.ptr, capacity |-> cv.capacity,
              start |-> 0, end |-> ptr_add(0, len(cv))]
    /\ yield' = [orig |-> as_slice(cv), front |-> <<>>, back |-> <<>>]
    /\ phase' = "iter"
    /\ cv' = Absent
    /\ hist' = Unrelated
    /\ last' = Call("into_iter", <<>>, "ok", NoVal, <<>>)
    /\ UNCHANGED <<size_of_T, cl, pc, parts, vec, mem, heap, other, viol>>

\* IntoIter::next
next ==
    /\ phase = "iter"
    /\ IF it.start = it.end
       THEN /\ last' = Call("next", <<>>, "none", NoVal, <<>>)
            /\ UNCHANGED <<it, mem, viol, yield>>
       ELSE LET i == SlotAt(it.start)
                result == ptr_read(mem, it.ptr, i)
            IN  /\ it' = [it EXCEPT !.start = ptr_add(it.start, 1)]
                /\ mem' = MovedOut(mem, it.ptr, i)
                /\ viol' = viol \cup ReadViol(mem, it.ptr, i)
                /\ yield' = [yield EXCEPT !.front = Append(@, result)]
                /\ last' = Call("next", <<>>, "some", result, <<>>)
    /\ UNCHANGED <<size_of_T, cl, pc, phase, cv, parts, vec, heap, other, pre, hist>>

\* IntoIter::next_back
next_back ==
    /\ phase = "iter"
    /\ IF it.start = it.end
       THEN /\ last' = Call("next_back", <<>>, "none", NoVal, <<>>)
            /\ UNCHANGED <<it, mem, viol, yield>>
       ELSE LET e == ptr_add(it.end, -1)
                result == ptr_read(mem, it.ptr, SlotAt(e))
            IN  /\ it' = [it EXCEPT !.end = e]
                /\ mem' = MovedOut(mem, it.ptr, SlotAt(e))
                /\ viol' = viol \cup ReadViol(mem, it.ptr, SlotAt(e))
                /\ yield' = [yield EXCEPT !.back = Append(@, result)]
                /\ last' = Call("next_back", <<>>, "some", result, <<>>)
    /\ UNCHANGED <<size_of_T, cl, pc, phase, cv, parts, vec, heap, other, pre, hist>>

\* IntoIter::len: the byte distance of the cursors over size_of::<T>() (the
\* division panics for a zero-sized T; callers branch on that).
IntoIter_len(i) == (i.end - i.start) \div size_of_T

\* Iterator::size_hint: (len, Some(len)) of IntoIter::len, whose division
\* by size_of::<T>() panics for a zero-sized T.
size_hint ==
    /\ phase = "iter"
    /\ last' = IF size_of_T = 0
               THEN Call("size_hint", <<>>, "panic", NoVal, <<>>)
               ELSE Call("size_hint", <<>>, "ok", IntoIter_len(it), <<>>)
    /\ UNCHANGED <<size_of_T, cl, pc, phase, cv, parts, vec, it, mem, heap, other, pre,
                   hist, yield, viol>>

(***************************************************************************)
(* Destructors                                                             *)
(***************************************************************************)

\* Drop for ConstVec<T>
drop ==
    /\ phase = "vec"
    /\ pre' = Snapshot(<<>>)
    /\ phase' = "gone"
    /\ cv' = Absent
    /\ hist' = Unrelated
    /\ IF capacity(cv) # 0
       THEN /\ mem' = drop_in_place(mem, as_ptr(cv), 0, len(cv))
            /\ heap' = dealloc(heap, cv.ptr, Layout_array(capacity(cv)))
            /\ viol' = viol \cup DropViol(mem, as_ptr(cv), 0, len(cv))
                            \cup DeallocViol(heap, cv.ptr, Layout_array(capacity(cv)))
            /\ last' = Call("drop", <<>>, "ok", NoVal, DroppedSlots(0, len(cv)))
       ELSE /\ last' = Call("drop", <<>>, "ok", NoVal, <<>>)
            /\ UNCHANGED <<mem, heap, viol>>
    /\ UNCHANGED <<size_of_T, cl, pc, parts, vec, it, other, yield>>

\* Drop for IntoIter<T>.  For a zero-sized T, len() divides by zero and the
\* destructor panics before anything is dropped or released.
IntoIter_drop ==
    /\ phase = "iter"
    /\ phase' = "gone"
    /\ it' = NoIter
    /\ IF it.capacity # 0
       THEN IF size_of_T = 0
            THEN /\ last' = Call("iter_drop", <<>>, "panic", NoVal, <<>>)
                 /\ UNCHANGED <<mem, heap, viol>>
            ELSE LET first == SlotAt(it.start)
                     n == IntoIter_len(it)
                 IN  /\ mem' = drop_in_place(mem, it.ptr, first, n)
                     /\ heap' = dealloc(heap, it.ptr, Layout_array(it.capacity))
                     /\ viol' = viol \cup DropViol(mem, it.ptr, first, n)
                                     \cup DeallocViol(heap, it.ptr, Layout_array(it.capacity))
                     /\ last' = Call("iter_drop", <<>>, "ok", NoVal, DroppedSlots(first, n))
       ELSE /\ last' = Call("iter_drop", <<>>, "ok", NoVal, <<>>)
            /\ UNCHANGED <<mem, heap, viol>>
    /\ UNCHANGED <<size_of_T, cl, pc, cv, parts, vec, other, pre, hist, yield>>

Next ==
    \/ \E value \in Values : push(value)
    \/ pop
    \/ \E src \in SeqsUpTo(Values, MaxDonor) : append(src)
    \/ clear
    \/ into_raw_parts
    \/ from_raw_parts
    \/ into_vec
    \/ from_vec
    \/ into_iter
    \/ next
    \/ next_back
    \/ size_hint
    \/ drop
    \/ IntoIter_drop

Spec == Init /\ [][Next]_vars

\* A container and its clone, each pushed to, popped, appended to and cleared.
CloneNext ==
    \/ \E value \in Values : push(value)
    \/ pop
    \/ \E src \in SeqsUpTo(Values, MaxDonor) : append(src)
    \/ clear
    \/ clone
    \/ clone_abort
    \/ \E value \in Values : clone_push(value)
    \/ clone_pop
    \/ \E src \in SeqsUpTo(Values, MaxDonor) : clone_append(src)
    \/ clone_clear

SpecClone == Init /\ [][CloneNext]_vars

\* A container pushed to, popped and cleared, and compared at any point.
EqNext ==
    \/ \E value \in Values : push(value)
    \/ pop
    \/ clear
    \/ \E o \in SeqsUpTo(Values, MaxCap) : eq(o)
    \/ \E o \in SeqsUpTo(Values, MaxCap) : \E c \in 0 .. MaxCap : eq_ConstVec(o, c)

SpecEq == Init /\ [][EqNext]_vars

\* append and the destructor of the container, between two calls.
append_between(src) == pc = Idle /\ append(src)
drop_between == pc = Idle /\ drop

\* push, pop and clear one statement at a time, an element destructor free
\* to panic during clear; append and the container's destructor in one step.
StepNext ==
    \/ \E value \in Values : push_write(value)
    \/ push_set_len
    \/ \E value \in Values : push_full(value)
    \/ pop_set_len
    \/ pop_read
    \/ pop_empty
    \/ clear_set_len
    \/ clear_drop
    \/ \E unwinding \in {"drops_rest", "leaks_rest"} : clear_drop_panic(unwinding)
    \/ clear_return
    \/ \E src \in SeqsUpTo(Values, MaxDonor) : append_between(src)
    \/ drop_between

SpecSteps == Init /\ [][StepNext]_vars

(***************************************************************************)
(* Claims                                                                  *)
(***************************************************************************)

\* C1: on a container made by new(c), as long as only pushes have been made,
\* the length is the number of values pushed so far (each successful push
\* raised it by exactly 1), the slice view is those values in push order, at
\* most c pushes succeed, and a push panics exactly when c pushes succeeded
\* before it.
C1_PushSequence ==
    (phase = "vec" /\ hist.kind = "fresh") =>
        /\ len(cv) = Len(hist.vals)
        /\ as_slice(cv) = hist.vals
        /\ Len(hist.vals) <= capacity(cv)
        /\ (last.op = "push" /\ last.res = "ok" => len(cv) = pre.len + 1)
        /\ (last.op = "push" => (last.res = "panic" <=> pre.len = capacity(cv)))

\* C1 witness: two different values pushed onto a fresh container of capacity
\* 2, and the third push has panicked.
C1_Witness ==
    /\ phase = "vec" /\ hist.kind = "fresh"
    /\ capacity(cv) = 2 /\ Len(hist.vals) = 2 /\ hist.vals[1] # hist.vals[2]
    /\ last.op = "push" /\ last.res = "panic"

\* C2: a push that finds length = capacity panics and leaves the length, the
\* capacity, the pointer and the live elements as they were; a push that
\* finds length < capacity does not panic.
C2_PushAtCapacity ==
    (phase = "vec" /\ last.op = "push") =>
        /\ (pre.len = pre.capacity =>
              /\ last.res = "panic"
              /\ len(cv) = pre.len
              /\ capacity(cv) = pre.capacity
              /\ as_ptr(cv) = pre.ptr
              /\ as_slice(cv) = pre.slice)
        /\ (pre.len < pre.capacity => last.res = "ok")

\* C2 witness: a push panicked on a full, non-empty container that was not
\* filled by pushes alone (an append, a pop or a conversion came before).
C2_Witness ==
    /\ phase = "vec" /\ last.op = "push" /\ last.res = "panic"
    /\ last.prev = "append"
    /\ pre.len = pre.capacity /\ pre.len > 0

\* C3: whenever a container exists, 0 <= length <= capacity.
C3_LenWithinCapacity ==
    phase = "vec" => (0 <= len(cv) /\ len(cv) <= capacity(cv))

\* C3 witness: an append has panicked on a non-empty container that is not full.
C3_Witness ==
    /\ phase = "vec" /\ last.op = "append" /\ last.res = "panic"
    /\ 0 < len(cv) /\ len(cv) < capacity(cv)

\* C4: a pop that finds a non-empty container returns the last live element,
\* lowers the length by exactly 1 and leaves the other live elements as they
\* were; a pop right after a successful push(v) returns Some(v) and restores
\* the length and the live slice the push found.
C4_PushPop ==
    [][(last'.op = "pop" /\ phase = "vec" /\ len(cv) > 0 =>
            /\ last'.res = "some"
            /\ last'.val = as_slice(cv)[len(cv)]
            /\ len(cv)' = len(cv) - 1
            /\ capacity(cv)' = capacity(cv)
            /\ as_slice(cv)' = SubSeq(as_slice(cv), 1, len(cv) - 1))
       /\ (last'.op = "pop" /\ phase = "vec" /\ last.op = "push" /\ last.res = "ok" =>
            /\ last'.res = "some"
            /\ last'.val = last.arg[1]
            /\ len(cv)' = pre.len
            /\ as_slice(cv)' = pre.slice)]_vars

\* C4 witness: a pop right after a push onto a non-empty container has
\* returned an element.
C4_Witness ==
    /\ phase = "vec" /\ last.op = "pop" /\ last.prev = "push" /\ last.res = "some"
    /\ len(cv) >= 1 /\ pre.len = len(cv) + 1

\* C5: a pop that finds length 0 returns None without panicking and leaves
\* the length at 0 and the capacity as it was.
C5_PopEmpty ==
    (last.op = "pop" /\ pre.len = 0) =>
        /\ phase = "vec"
        /\ last.res = "none"
        /\ len(cv) = 0
        /\ capacity(cv) = pre.capacity
        /\ as_ptr(cv) = pre.ptr

\* C5 witness: a pop returned None on a container of capacity > 0 that a
\* clear or a pop had emptied.
C5_Witness ==
    /\ phase = "vec" /\ last.op = "pop" /\ last.res = "none"
    /\ last.prev \in {"clear", "pop"} /\ capacity(cv) > 0

\* C6: an append that finds length + donor length <= capacity succeeds: the
\* slice is the former slice followed by the donor's elements in order, the
\* length grew by the donor's length, capacity and pointer are unchanged,
\* the donor has length 0, and no destructor ran and no live slot was
\* overwritten (the elements were moved).
C6_AppendFits ==
    (last.op = "append" /\ pre.len + Len(pre.donor) <= pre.capacity) =>
        /\ phase = "vec"
        /\ last.res = "ok"
        /\ as_slice(cv) = pre.slice \o pre.donor
        /\ len(cv) = pre.len + Len(pre.donor)
        /\ capacity(cv) = pre.capacity
        /\ as_ptr(cv) = pre.ptr
        /\ other.len = 0
        /\ last.dropped = <<>>
        /\ \A i \in 0 .. len(cv) - 1 : mem[cv.ptr][i].st = "live"
        /\ "overwrite_live" \notin viol

\* C6 witness: a donor of two different elements was appended to a non-empty
\* container.
C6_Witness ==
    /\ phase = "vec" /\ last.op = "append" /\ last.res = "ok"
    /\ pre.len > 0 /\ Len(pre.donor) = 2 /\ pre.donor[1] # pre.donor[2]

\* C7: an append that finds length + donor length > capacity panics and
\* leaves the container's length, capacity and live elements and the donor's
\* length and elements as they were.
C7_AppendOverflow ==
    (last.op = "append" /\ pre.len + Len(pre.donor) > pre.capacity) =>
        /\ phase = "vec"
        /\ last.res = "panic"
        /\ len(cv) = pre.len
        /\ capacity(cv) = pre.capacity
        /\ as_ptr(cv) = pre.ptr
        /\ as_slice(cv) = pre.slice
        /\ other.len = Len(pre.donor)
        /\ [i \in 1 .. other.len |-> other.buf[i].val] = pre.donor
        /\ \A i \in 1 .. other.len : other.buf[i].st = "live"

\* C7 witness: an append of two elements panicked on a non-empty container
\* with one free slot.
C7_Witness ==
    /\ phase = "vec" /\ last.op = "append" /\ last.res = "panic"
    /\ pre.len > 0 /\ pre.capacity = pre.len + 1 /\ Len(pre.donor) = 2

\* C8: after clear the length is 0 and the slice empty, capacity, pointer and
\* allocation are as before, the destructor of every formerly live element
\* ran exactly once (and of no other slot), and pushes made from then on
\* succeed until exactly capacity values are held.
C8_Clear ==
    /\ (last.op = "clear" =>
          /\ phase = "vec"
          /\ len(cv) = 0
          /\ as_slice(cv) = <<>>
          /\ capacity(cv) = pre.capacity
          /\ as_ptr(cv) = pre.ptr
          /\ (pre.ptr \in AllocIds => heap[pre.ptr].st = "live")
          /\ last.dropped = [k \in 1 .. pre.len |-> k - 1]
          /\ \A i \in 0 .. pre.len - 1 : mem[cv.ptr][i].st = "stale"
          /\ viol \cap {"double_drop", "drop_uninit"} = {})
    /\ (phase = "vec" /\ hist.kind = "cleared" =>
          /\ len(cv) = Len(hist.vals)
          /\ as_slice(cv) = hist.vals
          /\ Len(hist.vals) <= capacity(cv)
          /\ (last.op = "push" => (last.res = "panic" <=> pre.len = capacity(cv))))

\* C8 witness: a clear of a container that held two elements put there by an append.
C8_Witness ==
    /\ phase = "vec" /\ last.op = "clear" /\ last.prev = "append"
    /\ pre.len = 2 /\ pre.capacity > 2

\* What every round trip keeps: length, pointer, allocation and live slice,
\* with no destructor run and every element still owned by its slot.
RoundTripKeeps ==
    /\ len(cv) = pre.len
    /\ as_ptr(cv) = pre.ptr
    /\ as_slice(cv) = pre.slice
    /\ (pre.ptr \in AllocIds => heap[pre.ptr].st = "live")
    /\ last.dropped = <<>>
    /\ \A i \in 0 .. len(cv) - 1 : mem[cv.ptr][i].st = "live"

\* C9 (as stated): a container converted into a Vec and back, or decomposed
\* by into_raw_parts and rebuilt by from_raw_parts, has the same length, the
\* same capacity, the same allocation and the same live slice, and no
\* element was dropped or duplicated.
C9_RoundTripSameCapacity ==
    (phase = "vec" /\ last.op \in {"from", "from_raw_parts"}) =>
        /\ RoundTripKeeps
        /\ capacity(cv) = pre.capacity

\* C9 (amended): as above, except that for a zero-sized T the container that
\* comes back from a Vec has capacity usize::MAX, whatever it was before.
C9_RoundTrip ==
    (phase = "vec" /\ last.op \in {"from", "from_raw_parts"}) =>
        /\ RoundTripKeeps
        /\ capacity(cv) = IF last.op = "from" /\ size_of_T = 0 THEN UsizeMax
                          ELSE pre.capacity

\* C9 witness: a container of capacity 3 holding two elements went into a Vec
\* and came back.
C9_Witness ==
    /\ phase = "vec" /\ last.op = "from" /\ last.prev = "into_vec"
    /\ len(cv) = 2 /\ capacity(cv) = 3

\* What next and next_back have returned agrees with the iterated slice: the
\* values from the front are its first elements in order, those from the back
\* its last elements in reverse order, no element was returned twice, and a
\* call returns None only when every element has been returned.
YieldedInOrder ==
    LET n == Len(yield.orig)
        f == Len(yield.front)
        b == Len(yield.back)
    IN  /\ f + b <= n
        /\ \A i \in 1 .. f : yield.front[i] = yield.orig[i]
        /\ \A i \in 1 .. b : yield.back[i] = yield.orig[n + 1 - i]
        /\ (last.op \in {"next", "next_back"} /\ last.res = "none" => f + b = n)

\* C10: for a container with live slice [e0..e(n-1)], any interleaving of
\* next and next_back yields every element exactly once, next in slice
\* order, next_back in reverse order; exactly n calls return an element and
\* every later call returns None.
C10_IterYieldsAll == phase = "iter" => YieldedInOrder

\* The same for element types of nonzero size only.
IterYieldsAll_Sized == (phase = "iter" /\ size_of_T # 0) => YieldedInOrder

\* The cursors are ordered, and a size_hint call returns (without panicking)
\* the number of elements of the iterated slice not yet returned.
CursorsAndLen ==
    /\ it.start <= it.end
    /\ (last.op = "size_hint" =>
          /\ last.res = "ok"
          /\ last.val = Len(yield.orig) - Len(yield.front) - Len(yield.back))

\* C11: in every state of the consuming iterator, start <= end, and len()
\* (both bounds of size_hint) is the original length minus the number of
\* elements already yielded.
C11_IterLenExact == phase = "iter" => CursorsAndLen

\* The same for element types of nonzero size only.
IterLenExact_Sized == (phase = "iter" /\ size_of_T # 0) => CursorsAndLen

\* C12: clone() yields a container of the same capacity whose slice equals the
\* original's and which, for a non-zero capacity, lives in an allocation of
\* its own; from then on a push, pop, append or clear on the clone leaves the
\* original's length and elements as they were, and one on the original
\* leaves the clone's.
CloneOps == {"clone_push", "clone_pop", "clone_append", "clone_clear"}
OwnOps == {"push", "pop", "append", "clear"}

CloneIsCopy ==
    /\ (cl.made => capacity(cl) = capacity(cv))
    /\ (cl.made /\ capacity(cv) # 0 =>
          /\ cl.ptr # cv.ptr
          /\ cl.ptr \in AllocIds
          /\ heap[cl.ptr].st = "live"
          /\ heap[cv.ptr].st = "live")
    /\ (last.op = "clone" /\ last.res = "ok" =>
          /\ len(cl) = len(cv)
          /\ as_slice(cl) = as_slice(cv))

CloneStepsApart ==
    /\ (last'.op \in CloneOps =>
          /\ cv' = cv
          /\ as_slice(cv)' = as_slice(cv))
    /\ (cl.made /\ last'.op \in OwnOps =>
          /\ cl' = cl
          /\ as_slice(cl)' = as_slice(cl))

Compared == last.op \in {"eq", "eq_ConstVec"}

Wiped ==
    [mem EXCEPT ![cv.ptr] = [i \in Slots |-> IF i < len(cv) THEN @[i] ELSE Uninit]]

C13_Equality ==
    (phase = "vec" /\ Compared) =>
        LET o == last.arg
            same == /\ Len(o) = len(cv)
                    /\ \A i \in 1 .. Len(o) : o[i] = mem[cv.ptr][i - 1].val
        IN  /\ (last.res = "true") <=> same
            /\ (last.res = "false") <=> ~same
            /\ (hist.kind # "other" => ((last.res = "true") <=> (o = hist.vals)))
            /\ last.res = Bool(slice_eq(slice_from_raw_parts(Wiped, cv.ptr, len(cv)), o))

\* A container with room to spare whose first free slot still holds a value
\* left by pop or clear, found equal to a sequence of its own length.
C13_Witness ==
    /\ phase = "vec" /\ Compared
    /\ last.res = "true"
    /\ len(cv) >= 1
    /\ len(cv) < capacity(cv) /\ len(cv) < MaxCap
    /\ mem[cv.ptr][len(cv)].st = "stale"

\* C14: new(c) yields a container of length 0 and capacity c, and no push,
\* pop, append or clear, panicking or not, changes the capacity, the buffer
\* pointer or the allocation: capacity() goes on returning c.
FreshlyMade ==
    (last.op = "new" /\ last.res = "ok") =>
        /\ len(cv) = 0
        /\ capacity(cv) = last.arg[1]
        /\ (capacity(cv) = 0 => as_ptr(cv) = Dangling /\ heap = EmptyHeap)

StorageFixed ==
    (phase = "vec" /\ last'.op \in OwnOps) =>
        /\ capacity(cv)' = capacity(cv)
        /\ as_ptr(cv)' = as_ptr(cv)
        /\ heap' = heap

C14_CapacityFixed == []FreshlyMade /\ [][StorageFixed]_vars

\* A container made by new(2), filled by pushes, refusing a third: the
\* capacity is the one it had before the panicking call.
C14_Witness ==
    /\ phase = "vec" /\ hist.kind = "fresh"
    /\ last.op = "push" /\ last.res = "panic"
    /\ capacity(cv) = 2 /\ len(cv) = 2
    /\ pre.capacity = 2

\* C16: at every statement of push, pop, clear, append and drop the slots
\* below len hold live values, and no statement reads or drops a slot that
\* holds none or writes over one that does.  push writes the slot at the old
\* len and no other, with len not yet moved, so that the slice seen before
\* the call is still there after it; pop lowers len and only then reads the
\* slot out.
SlotsBelowLenLive ==
    phase = "vec" => \A i \in Slots : i < len(cv) => mem[cv.ptr][i].st = "live"

NoStraySlotAccess ==
    viol \cap {"overwrite_live", "read_moved", "read_uninit", "double_drop", "drop_uninit"} = {}

ViewKept ==
    (phase = "vec" /\ (pc.at = "push" \/ (pc = Idle /\ last.op = "push"))) =>
        slice_from_raw_parts(mem, pre.ptr, pre.len) = pre.slice

PushPopOrder ==
    /\ (pc = Idle /\ pc'.at = "push" =>
          /\ len(cv)' = len(cv)
          /\ mem[cv.ptr][len(cv)].st # "live"
          /\ mem'[cv.ptr][len(cv)].st = "live"
          /\ \A i \in Slots : i # len(cv) => mem'[cv.ptr][i] = mem[cv.ptr][i])
    /\ (pc.at = "push" /\ pc' = Idle =>
          /\ mem' = mem
          /\ len(cv)' = len(cv) + 1
          /\ mem[cv.ptr][len(cv)].st = "live")
    /\ (pc = Idle /\ pc'.at = "pop" =>
          /\ mem' = mem
          /\ len(cv)' = len(cv) - 1)
    /\ (pc.at = "pop" /\ pc' = Idle =>
          /\ len(cv)' = len(cv)
          /\ last'.val = mem[cv.ptr][len(cv)].val
          /\ mem[cv.ptr][len(cv)].st = "live"
          /\ \A i \in Slots : i # len(cv) => mem'[cv.ptr][i] = mem[cv.ptr][i])

C16_RepInvariant ==
    /\ [](SlotsBelowLenLive /\ NoStraySlotAccess /\ ViewKept)
    /\ [][PushPopOrder]_vars

\* Between the two statements of a push into a container that holds an
\* element already and, behind it, a value an earlier pop left.
C16_Witness ==
    /\ pc.at = "push"
    /\ len(cv) = 1
    /\ pre.len = 1
    /\ last.op = "pop" /\ last.res = "some"
    /\ mem[cv.ptr][1].st = "live"

\* C17: from construction to drop an allocation that is live has exactly one
\* holder among the container, the raw parts, the Vec and the iterator, and a
\* released one has none; into_raw_parts, the conversion into a Vec and
\* into_iter hand the buffer over without running the container's
\* destructor (no element dropped, nothing released), and a released
\* allocation is never touched again.
HoldersOf(a) ==
    {h \in {"cv", "parts", "vec", "it"} :
        [cv |-> cv.ptr, parts |-> parts.ptr, vec |-> vec.ptr, it |-> it.ptr][h] = a}

OneOwner ==
    \A a \in AllocIds :
        /\ (heap[a].st = "live" /\ phase \notin {"gone", "aborted"} =>
              Cardinality(HoldersOf(a)) = 1)
        /\ Cardinality(HoldersOf(a)) <= 1
        /\ (heap[a].st # "live" => HoldersOf(a) = {})

Handover ==
    /\ (last'.op \in {"into_raw_parts", "into_vec", "into_iter"} /\ phase = "vec" =>
          /\ mem' = mem /\ heap' = heap /\ viol' = viol
          /\ last'.dropped = <<>>
          /\ cv' = Absent
          /\ \A a \in AllocIds : HoldersOf(a)' # {} <=> HoldersOf(a) # {})
    /\ \A a \in AllocIds : heap[a].st = "freed" => (heap'[a] = heap[a] /\ mem'[a] = mem[a])

C17_SingleOwner == []OneOwner /\ [][Handover]_vars

\* A buffer with elements that went from the container into a Vec and is
\* back in a container: held by it alone, still allocated.
C17_Witness ==
    /\ phase = "vec"
    /\ last.op = "from" /\ last.prev = "into_vec"
    /\ cv.ptr \in AllocIds
    /\ heap[cv.ptr].st = "live"
    /\ len(cv) >= 1
    /\ HoldersOf(cv.ptr) = {"cv"}

\* C18: clear has set len to 0 before the first element destructor runs; when
\* a destructor panics the container is left empty, the elements no
\* destructor ran for are leaked, and no destructor runs twice for an
\* element, neither in clear nor when the container is dropped afterwards.
LenZeroWhileDropping == pc.at = "clear" => (len(cv) = 0 /\ as_slice(cv) = <<>>)

EmptyAfterClear ==
    (phase = "vec" /\ pc = Idle /\ last.op = "clear") =>
        /\ len(cv) = 0
        /\ Len(last.dropped) <= pre.len
        /\ \A i, j \in 1 .. Len(last.dropped) :
              last.dropped[i] = last.dropped[j] => i = j
        /\ \A i \in Slots : i < pre.len =>
              mem[cv.ptr][i].st = (IF \E k \in 1 .. Len(last.dropped) : last.dropped[k] = i
                                   THEN "stale" ELSE "leaked")

NoDoubleDrop == viol \cap {"double_drop", "drop_uninit"} = {}

ClearOrder ==
    /\ (pc = Idle /\ pc'.at = "clear" => (mem' = mem /\ len(cv)' = 0))
    /\ (pc.at = "clear" /\ mem' # mem => len(cv) = 0)
    /\ (last'.op = "drop" /\ last.op = "clear" /\ last.res = "panic" =>
          /\ last'.dropped = <<>>
          /\ mem' = mem)

C18_ClearPanicSafe ==
    /\ [](LenZeroWhileDropping /\ EmptyAfterClear /\ NoDoubleDrop)
    /\ [][ClearOrder]_vars

\* The container dropped after a clear of two elements or more in which the
\* destructor of the first panicked and the others were leaked.
C18_Witness ==
    /\ phase = "gone"
    /\ last.op = "drop" /\ last.prev = "clear"
    /\ \E i \in Slots : mem[pre.ptr][i].st = "leaked"
    /\ mem[pre.ptr][0].st = "stale"

\* C19: dropping the iterator runs the destructor of exactly the elements not
\* yet yielded, those between the cursors, each once and in order, releases
\* the allocation of the original base pointer and capacity once, and leaves
\* no element of the original sequence undropped and unyielded; a fully
\* consumed iterator drops nothing and still releases.
IterDropExact ==
    (phase = "gone" /\ last.op = "iter_drop") =>
        LET f == Len(yield.front)
            b == Len(yield.back)
            n == Len(yield.orig)
        IN  /\ last.res = "ok"
            /\ last.dropped = DroppedSlots(f, n - f - b)
            /\ viol \cap {"double_drop", "drop_uninit", "bad_dealloc"} = {}
            /\ \A i \in Slots : i < n => mem[pre.ptr][i].st = "stale"
            /\ (pre.capacity # 0 =>
                  /\ pre.ptr \in AllocIds
                  /\ heap[pre.ptr].st = "freed")
            /\ (pre.capacity = 0 => \A a \in AllocIds : heap[a].st # "freed")

C19_IterDropExact == IterDropExact

\* The same for element types of nonzero size.
IterDropExact_Sized == size_of_T # 0 => IterDropExact

\* C20: the destructor of a container runs the destructor of each of its len
\* live elements once, in order, and of no other slot, and releases the
\* allocation once when the capacity is not 0; a container of capacity 0 has
\* no allocation, and none is released.
ContainerDropExact ==
    (phase = "gone" /\ last.op = "drop") =>
        /\ last.res = "ok"
        /\ last.dropped = DroppedSlots(0, pre.len)
        /\ viol \cap {"double_drop", "drop_uninit", "bad_dealloc"} = {}
        /\ \A i \in Slots : i < pre.len => mem[pre.ptr][i].st = "stale"
        /\ (pre.capacity # 0 =>
              /\ pre.ptr \in AllocIds
              /\ heap[pre.ptr].st = "freed")
        /\ (pre.capacity = 0 =>
              /\ pre.ptr = Dangling
              /\ heap = EmptyHeap)

C20_DropExact == ContainerDropExact

\* The same for element types of nonzero size.
ContainerDropExact_Sized == size_of_T # 0 => ContainerDropExact

====
